---- MODULE Spec2Model ----
(***************************************************************************)
(* State-machine model of src/app.js: an express server that stores        *)
(* WhatsApp webhook messages in a mongoose collection (Message), sends     *)
(* outbound messages through the Meta Graph API and serves the stored      *)
(* conversation to a dashboard.                                            *)
(*                                                                         *)
(* Every handler is an async function: it runs synchronously up to its     *)
(* next `await` and other handlers run while it waits.  A request that     *)
(* waits is "in flight" (variable reqs); each action below is one          *)
(* synchronous run of handler code, together with the database operation   *)
(* whose completion resumed it.                                            *)
(***************************************************************************)
EXTENDS Integers, Sequences, FiniteSets, TLC

(***************************************************************************)
(* Bounds of the model.                                                    *)
(***************************************************************************)
\* number of requests that get past their first await (webhook deliveries
\* that save at least one document, sends that call the Graph API)
MaxReq == 2

(***************************************************************************)
(* Values.                                                                 *)
(***************************************************************************)
\* JavaScript `undefined`: an absent property
NONE == "<undefined>"

\* !x for the string-or-undefined values the handlers test
Falsy(x) == x \in {NONE, ""}

\* process.env.API_KEY || 'default-key'
apiKey == "default-key"

\* .limit(100) of GET /messages
LIMIT == 100

(***************************************************************************)
(* Inbound message units (the elements of change.value.messages).          *)
(* hasText says whether the unit carries a `text` object.                  *)
(***************************************************************************)
Unit(id, from, type, hasText, body) ==
  [id |-> id, from |-> from, type |-> type, hasText |-> hasText,
   text |-> [body |-> body], timestamp |-> "1700000000"]

U1 == Unit("wamid.1", "A", "text", TRUE, "hi")
U2 == Unit("wamid.2", "A", "image", FALSE, NONE)
U3 == Unit("wamid.3", "B", "text", TRUE, "yo")
U4 == Unit("wamid.4", NONE, "audio", FALSE, NONE)

(***************************************************************************)
(* Webhook bodies.  A body is req.body: entry is its `entry` array         *)
(* (hasEntry FALSE: no such property); an entry holds its `changes` array  *)
(* likewise; a change holds `value` (hasValue), value.metadata             *)
(* (hasMetadata), value.metadata.phone_number_id and value.messages        *)
(* (hasMessages).                                                          *)
(***************************************************************************)
Change(hasValue, hasMetadata, pnid, hasMessages, msgs) ==
  [hasValue |-> hasValue, hasMetadata |-> hasMetadata,
   phone_number_id |-> pnid, hasMessages |-> hasMessages, messages |-> msgs]

Entry(hasChanges, changes) == [hasChanges |-> hasChanges, changes |-> changes]

Body(hasEntry, entries) == [hasEntry |-> hasEntry, entry |-> entries]

\* the usual delivery: one entry, one change, a list of message units
Delivery(pnid, msgs) ==
  Body(TRUE, <<Entry(TRUE, <<Change(TRUE, TRUE, pnid, TRUE, msgs)>>)>>)

\* deliveries in which an expected nested field is absent
EvNoEntry == Body(FALSE, <<>>)
EvNoChanges == Body(TRUE, <<Entry(FALSE, <<>>)>>)
EvNoValue == Body(TRUE, <<Entry(TRUE, <<Change(FALSE, FALSE, NONE, FALSE, <<>>)>>)>>)
EvNoMetadata == Body(TRUE, <<Entry(TRUE, <<Change(TRUE, FALSE, NONE, TRUE, <<U1>>)>>)>>)
EvNoMessages == Body(TRUE, <<Entry(TRUE, <<Change(TRUE, TRUE, "P1", FALSE, <<>>)>>)>>)
EvNoPhoneId == Delivery(NONE, <<U1>>)

MissingFieldEvents ==
  {EvNoEntry, EvNoChanges, EvNoValue, EvNoMetadata, EvNoMessages}

\* deliveries with every expected field present and N = 0, 1, 2 units
ValidEvents ==
  {Delivery("P1", <<>>), Delivery("P1", <<U1, U2>>), Delivery("P1", <<U3, U4>>),
   Delivery("P2", <<U1>>)}

Events == MissingFieldEvents \cup ValidEvents \cup {EvNoPhoneId}

(***************************************************************************)
(* State.                                                                  *)
(***************************************************************************)
VARIABLES
  store,      \* the Message collection, in insertion order
  reqs,       \* the requests in flight: request number -> handler state
  reqSeq,     \* number of requests that went in flight so far
  now,        \* the last value Date.now() returned (0: it was never read)
  delivered,  \* the messages the Graph API accepted, with the id it gave each
  resp        \* the last response sent, with the request it answers

vars == <<store, reqs, reqSeq, now, delivered, resp>>

\* Date.now(): the clock does not go back, and two readings may be equal
DateNow == IF now = 0 THEN {1} ELSE {now, now + 1}

ReqIds == 1..MaxReq

Idle == [pc |-> "idle"]
Done == [pc |-> "done"]

(***************************************************************************)
(* The Message model.                                                      *)
(***************************************************************************)
\* new Message({...}): the document gets its _id (modelled as <<request
\* number, position in the request>>) and timestamp: Date.now at construction
Message(oid, fields, time) ==
  [_id |-> oid, phoneNumberId |-> fields.phoneNumberId, from |-> fields.from,
   to |-> fields.to, message |-> fields.message, type |-> fields.type,
   direction |-> fields.direction, timestamp |-> time,
   metadata |-> fields.metadata]

\* Validates for a schema that requires no field
ValidatesAll(doc) == TRUE

\* the schema's validation, run by save(): phoneNumberId is required (mongoose
\* rejects undefined and the empty string for a required String)
Validates(doc) == ~Falsy(doc.phoneNumberId)

(***************************************************************************)
(* POST / : the webhook.                                                   *)
(***************************************************************************)
\* line 70: the stored body of a unit
IncomingBody(msg) ==
  IF msg.hasText THEN msg.text.body
  ELSE IF msg.type = "image" THEN "[Image]" ELSE "[Other Media]"

\* lines 67-74: the fields of the document of one unit
IncomingFields(phoneNumberId, msg) ==
  [phoneNumberId |-> phoneNumberId, from |-> msg.from, to |-> NONE,
   message |-> IncomingBody(msg), type |-> msg.type, direction |-> "incoming",
   metadata |-> [id |-> msg.id, timestamp |-> msg.timestamp]]

\* Extract reading the last change of the last entry instead of the first
ExtractLast(body) ==
  IF ~body.hasEntry \/ Len(body.entry) = 0 THEN [outcome |-> "noop"]
  ELSE LET entry == body.entry[Len(body.entry)] IN
    IF ~entry.hasChanges \/ Len(entry.changes) = 0 THEN [outcome |-> "noop"]
    ELSE LET change == entry.changes[Len(entry.changes)] IN
      IF ~change.hasValue \/ ~change.hasMetadata THEN [outcome |-> "throw"]
      ELSE IF ~change.hasMessages \/ Len(change.messages) = 0
        THEN [outcome |-> "noop"]
        ELSE [outcome |-> "loop", phoneNumberId |-> change.phone_number_id,
              messages |-> change.messages]

\* lines 60-65: what the handler finds in req.body before it stores anything.
\* "throw": reading change.value.metadata.phone_number_id raised a TypeError;
\* "noop": nothing to store; "loop": the for loop runs over messages
Extract(body) ==
  IF ~body.hasEntry \/ Len(body.entry) = 0 THEN [outcome |-> "noop"]
  ELSE LET entry == body.entry[1] IN
    IF ~entry.hasChanges \/ Len(entry.changes) = 0 THEN [outcome |-> "noop"]
    ELSE LET change == entry.changes[1] IN
      IF ~change.hasValue \/ ~change.hasMetadata THEN [outcome |-> "throw"]
      ELSE IF ~change.hasMessages \/ Len(change.messages) = 0
        THEN [outcome |-> "noop"]
        ELSE [outcome |-> "loop", phoneNumberId |-> change.phone_number_id,
              messages |-> change.messages]

\* the response of a webhook delivery: q is its request number (0 when it
\* never waited), saved the number of its documents that were saved, and seen
\* says whether the delivery was a redelivery (see AlreadyStored)
WebhookResponse(status, q, body, saved, seen) ==
  [kind |-> "webhook", status |-> status, req |-> q, body |-> body,
   saved |-> saved, seen |-> seen]

\* observation, not handler code: every unit of the delivery is in the
\* collection already, under the same phone number id
AlreadyStored(phoneNumberId, messages) ==
  \A k \in DOMAIN messages :
    \E i \in DOMAIN store :
      /\ store[i].direction = "incoming"
      /\ store[i].phoneNumberId = phoneNumberId
      /\ store[i].metadata.id = messages[k].id

\* HasNext with the loop ending one unit early
HasNextShort(messages, idx) == idx + 1 < Len(messages)

\* line 66: the for loop has a further unit after position idx
HasNext(messages, idx) == idx < Len(messages)

\* lines 55-66, 80-84: a delivery arrives; the handler runs up to the first
\* `await newMessage.save()`, or to its response when there is nothing to save
WebhookPost(body) ==
  LET x == Extract(body) IN
  \/ /\ x.outcome = "noop"
     /\ resp' = WebhookResponse(200, 0, body, 0, FALSE)
     /\ UNCHANGED <<store, reqs, reqSeq, now, delivered>>
  \/ /\ x.outcome = "throw"
     /\ resp' = WebhookResponse(500, 0, body, 0, FALSE)
     /\ UNCHANGED <<store, reqs, reqSeq, now, delivered>>
  \/ /\ x.outcome = "loop"
     /\ reqSeq < MaxReq
     /\ \E t \in DateNow :
          /\ now' = t
          /\ reqs' = [reqs EXCEPT ![reqSeq + 1] =
               [pc |-> "save", kind |-> "webhook", body |-> body,
                phoneNumberId |-> x.phoneNumberId, messages |-> x.messages,
                idx |-> 1,
                seen |-> AlreadyStored(x.phoneNumberId, x.messages),
                doc |-> Message(<<reqSeq + 1, 1>>,
                                IncomingFields(x.phoneNumberId, x.messages[1]),
                                now')]]
     /\ reqSeq' = reqSeq + 1
     /\ UNCHANGED <<store, delivered, resp>>

\* lines 75-80: the pending save succeeded; the loop goes on to the next unit
\* and waits on its save, or ends and the handler answers 200
WebhookSaved(q) ==
  LET r == reqs[q] IN
  /\ r.pc = "save" /\ r.kind = "webhook"
  /\ Validates(r.doc)
  /\ store' = Append(store, r.doc)
  /\ IF HasNext(r.messages, r.idx)
       THEN \E t \in DateNow :
              /\ now' = t
              /\ reqs' = [reqs EXCEPT ![q] =
                   [r EXCEPT !.idx = r.idx + 1,
                             !.doc = Message(<<q, r.idx + 1>>,
                                       IncomingFields(r.phoneNumberId,
                                                      r.messages[r.idx + 1]),
                                       now')]]
              /\ UNCHANGED resp
       ELSE /\ reqs' = [reqs EXCEPT ![q] = Done]
            /\ resp' = WebhookResponse(200, q, r.body, r.idx, r.seen)
            /\ UNCHANGED now
  /\ UNCHANGED <<reqSeq, delivered>>

\* WebhookSaveFailed with the rejection caught inside the loop: the loop goes
\* on to the next unit, and the handler answers 200 after the last one
WebhookSaveFailedSkips(q) ==
  LET r == reqs[q] IN
  /\ r.pc = "save" /\ r.kind = "webhook"
  /\ IF HasNext(r.messages, r.idx)
       THEN \E t \in DateNow :
              /\ now' = t
              /\ reqs' = [reqs EXCEPT ![q] =
                   [r EXCEPT !.idx = r.idx + 1,
                             !.doc = Message(<<q, r.idx + 1>>,
                                       IncomingFields(r.phoneNumberId,
                                                      r.messages[r.idx + 1]),
                                       now')]]
              /\ UNCHANGED resp
       ELSE /\ reqs' = [reqs EXCEPT ![q] = Done]
            /\ resp' = WebhookResponse(200, q, r.body, r.idx - 1, r.seen)
            /\ UNCHANGED now
  /\ UNCHANGED <<store, reqSeq, delivered>>

\* lines 75, 81-83: the pending save rejected (the document does not validate,
\* or the database failed); the catch block answers 500
WebhookSaveFailed(q) ==
  LET r == reqs[q] IN
  /\ r.pc = "save" /\ r.kind = "webhook"
  /\ reqs' = [reqs EXCEPT ![q] = Done]
  /\ resp' = WebhookResponse(500, q, r.body, r.idx - 1, r.seen)
  /\ UNCHANGED <<store, reqSeq, now, delivered>>

(***************************************************************************)
(* Queries on the Message collection.                                      *)
(***************************************************************************)
\* Limit without the cap: every match is returned
LimitNone(s, k) == s

\* the first k elements of s: .limit(k)
Limit(s, k) == SubSeq(s, 1, IF Len(s) < k THEN Len(s) ELSE k)

\* the position of x in s, which is sorted by descending timestamp: the first
\* index in lo..hi whose document is not newer than x (hi: there is none),
\* found by bisection
RECURSIVE Position(_, _, _, _)
Position(s, x, lo, hi) ==
  IF lo = hi THEN lo
  ELSE LET mid == (lo + hi) \div 2 IN
       IF s[mid].timestamp <= x.timestamp THEN Position(s, x, lo, mid)
       ELSE Position(s, x, mid + 1, hi)

\* x put at its position in s
Insert(s, x) ==
  LET i == Position(s, x, 1, Len(s) + 1)
  IN SubSeq(s, 1, i - 1) \o <<x>> \o SubSeq(s, i, Len(s))

\* the documents of s put one after the other into sorted: the first half of
\* s, then the second.  The test on the lengths is always true; it makes TLC
\* evaluate the first half before it goes on, which keeps its stack shallow
RECURSIVE InsertAll(_, _)
InsertAll(sorted, s) ==
  IF s = <<>> THEN sorted
  ELSE IF Len(s) = 1 THEN Insert(sorted, s[1])
  ELSE LET h == Len(s) \div 2
           half == InsertAll(sorted, SubSeq(s, 1, h))
       IN IF Len(half) >= Len(sorted)
            THEN InsertAll(half, SubSeq(s, h + 1, Len(s)))
            ELSE half

\* SortDesc with the order reversed: ascending timestamp
SortAsc(s) ==
  LET sorted == InsertAll(<<>>, s)
  IN [i \in 1..Len(sorted) |-> sorted[Len(sorted) + 1 - i]]

\* one ordering of s by descending timestamp
SortDesc(s) == InsertAll(<<>>, s)

\* every arrangement of s
Arrangements(s) ==
  {[i \in 1..Len(s) |-> s[f[i]]] : f \in Permutations(1..Len(s))}

\* s is sorted by descending timestamp: every sequence that keeps that order
\* and arranges the documents of equal timestamp in any way.  s is cut between
\* two runs of equal timestamps, as near to its middle as they allow
RECURSIVE TieOrders(_)
TieOrders(s) ==
  IF s = <<>> THEN {<<>>}
  ELSE IF s[1].timestamp = s[Len(s)].timestamp THEN Arrangements(s)
  ELSE LET t == s[Len(s) \div 2 + 1].timestamp
           first == CHOOSE i \in 1..Len(s) :
                      /\ s[i].timestamp = t
                      /\ i = 1 \/ s[i - 1].timestamp # t
           cut == IF first > 1 THEN first
                  ELSE CHOOSE i \in 1..Len(s) :
                         s[i].timestamp # t /\ s[i - 1].timestamp = t
       IN {a \o b : a \in TieOrders(SubSeq(s, 1, cut - 1)),
                    b \in TieOrders(SubSeq(s, cut, Len(s)))}

\* .sort({ timestamp: -1 }): MongoDB returns documents of equal sort key in
\* no defined order, so a sort has a set of possible results
Sort(s) == TieOrders(SortDesc(s))

\* MessagesFilter without the condition on phoneNumberId
MessagesFilterAnyPhone(phoneId, contactNumber) ==
  LET Match(m) == m.from = contactNumber \/ m.to = contactNumber
  IN SelectSeq(store, Match)

\* lines 92-94: the filter of GET /messages
MessagesFilter(phoneId, contactNumber) ==
  LET Match(m) == /\ m.phoneNumberId = phoneId
                  /\ (m.from = contactNumber \/ m.to = contactNumber)
  IN SelectSeq(store, Match)

\* line 150: the filter of GET /contacts
ContactsFilter(phoneId) ==
  LET Match(m) == m.phoneNumberId = phoneId IN SelectSeq(store, Match)

(***************************************************************************)
(* GET /messages.                                                          *)
(***************************************************************************)
\* the response of a query: n is the number of documents the collection
\* held when the query ran
MessagesResponse(status, query, n, messages) ==
  [kind |-> "messages", status |-> status, req |-> 0, query |-> query,
   n |-> n, messages |-> messages]

\* lines 87-101
MessagesGet(query) ==
  /\ \/ /\ query.apiKey # apiKey
        /\ resp' = MessagesResponse(403, query, Len(store), <<>>)
     \/ /\ query.apiKey = apiKey
        /\ Falsy(query.phoneId) \/ Falsy(query.contactNumber)
        /\ resp' = MessagesResponse(400, query, Len(store), <<>>)
     \/ /\ query.apiKey = apiKey
        /\ ~Falsy(query.phoneId) /\ ~Falsy(query.contactNumber)
        /\ \E sorted \in Sort(MessagesFilter(query.phoneId, query.contactNumber)) :
             resp' = MessagesResponse(200, query, Len(store), Limit(sorted, LIMIT))
     \/ /\ query.apiKey = apiKey
        /\ ~Falsy(query.phoneId) /\ ~Falsy(query.contactNumber)
        /\ resp' = MessagesResponse(500, query, Len(store), <<>>)
  /\ UNCHANGED <<store, reqs, reqSeq, now, delivered>>

(***************************************************************************)
(* GET /contacts.                                                          *)
(***************************************************************************)
\* line 155: the counterparty of a document
Number(msg) == IF msg.direction = "incoming" THEN msg.from ELSE msg.to

\* the index of number's summary in the map (0: contactsMap.has is false)
IndexOf(contacts, number) ==
  IF \E i \in DOMAIN contacts : contacts[i].number = number
    THEN CHOOSE i \in DOMAIN contacts : contacts[i].number = number
    ELSE 0

\* Visit without the test of line 156: a document without counterparty gets a
\* summary of its own
VisitNoSkip(contacts, msg) ==
  LET number == Number(msg)
      i == IndexOf(contacts, number)
  IN IF i = 0
       THEN Append(contacts,
              [number |-> number, name |-> "null", lastMessage |-> msg.message,
               lastMessageTime |-> msg.timestamp,
               unreadCount |-> IF msg.direction = "incoming" THEN 1 ELSE 0])
       ELSE [contacts EXCEPT ![i] =
              [@ EXCEPT !.lastMessage = msg.message,
                        !.lastMessageTime = msg.timestamp,
                        !.unreadCount =
                           IF msg.direction = "incoming" THEN @ + 1 ELSE @]]

\* Visit without the test of the direction on line 169: every further
\* document of a counterparty is counted as unread
VisitCountsAll(contacts, msg) ==
  LET number == Number(msg)
      i == IndexOf(contacts, number)
  IN IF Falsy(number) THEN contacts
     ELSE IF i = 0
       THEN Append(contacts,
              [number |-> number, name |-> "null", lastMessage |-> msg.message,
               lastMessageTime |-> msg.timestamp,
               unreadCount |-> IF msg.direction = "incoming" THEN 1 ELSE 0])
       ELSE [contacts EXCEPT ![i] =
              [@ EXCEPT !.lastMessage = msg.message,
                        !.lastMessageTime = msg.timestamp,
                        !.unreadCount = @ + 1]]

\* lines 155-170: the callback of forEach, on the map built so far.  A Map
\* keeps its keys in insertion order, so the map is a sequence of summaries
Visit(contacts, msg) ==
  LET number == Number(msg)
      i == IndexOf(contacts, number)
  IN IF Falsy(number) THEN contacts
     ELSE IF i = 0
       THEN Append(contacts,
              [number |-> number, name |-> "null", lastMessage |-> msg.message,
               lastMessageTime |-> msg.timestamp,
               unreadCount |-> IF msg.direction = "incoming" THEN 1 ELSE 0])
       ELSE [contacts EXCEPT ![i] =
              [@ EXCEPT !.lastMessage = msg.message,
                        !.lastMessageTime = msg.timestamp,
                        !.unreadCount =
                           IF msg.direction = "incoming" THEN @ + 1 ELSE @]]

\* line 154: forEach, on the map built so far: the first half of messages,
\* then the second.  The test on the lengths is always true; it makes TLC
\* evaluate the first half before it goes on, which keeps its stack shallow
RECURSIVE ForEach(_, _)
ForEach(contacts, messages) ==
  IF messages = <<>> THEN contacts
  ELSE IF Len(messages) = 1 THEN Visit(contacts, messages[1])
  ELSE LET h == Len(messages) \div 2
           half == ForEach(contacts, SubSeq(messages, 1, h))
       IN IF Len(half) >= Len(contacts)
            THEN ForEach(half, SubSeq(messages, h + 1, Len(messages)))
            ELSE half

\* lines 153-173: the map starts empty; Array.from(contactsMap.values())
ContactsMap(messages) == ForEach(<<>>, messages)

ContactsResponse(status, query, n, contacts) ==
  [kind |-> "contacts", status |-> status, req |-> 0, query |-> query,
   n |-> n, contacts |-> contacts]

\* lines 145-179
ContactsGet(query) ==
  /\ \/ /\ query.apiKey # apiKey
        /\ resp' = ContactsResponse(403, query, Len(store), <<>>)
     \/ /\ query.apiKey = apiKey
        /\ Falsy(query.phoneId)
        /\ resp' = ContactsResponse(400, query, Len(store), <<>>)
     \/ /\ query.apiKey = apiKey
        /\ ~Falsy(query.phoneId)
        /\ \E sorted \in Sort(ContactsFilter(query.phoneId)) :
             resp' = ContactsResponse(200, query, Len(store), ContactsMap(sorted))
     \/ /\ query.apiKey = apiKey
        /\ ~Falsy(query.phoneId)
        /\ resp' = ContactsResponse(500, query, Len(store), <<>>)
  /\ UNCHANGED <<store, reqs, reqSeq, now, delivered>>

(***************************************************************************)
(* POST /send.                                                             *)
(***************************************************************************)
\* lines 110-116: the body posted to the Graph API, with the phone number id
\* of the URL (line 109)
MetaRequest(inp) ==
  [phoneNumberId |-> inp.phoneNumberId, to |-> inp.to, type |-> "text",
   text |-> [body |-> inp.message]]

\* OutgoingFields with the id read from the wrong place of the answer
\* (data.id, which is undefined)
OutgoingFieldsNoId(inp, metaId) ==
  [phoneNumberId |-> inp.phoneNumberId, from |-> "me", to |-> inp.to,
   message |-> inp.message, type |-> "text", direction |-> "outgoing",
   metadata |-> [metaId |-> 0]]

\* lines 127-135: the fields of the document of a sent message
OutgoingFields(inp, metaId) ==
  [phoneNumberId |-> inp.phoneNumberId, from |-> "me", to |-> inp.to,
   message |-> inp.message, type |-> "text", direction |-> "outgoing",
   metadata |-> [metaId |-> metaId]]

\* lines 106, 107, 138, 141: the JSON body the handler sends with a status
SendJson(status, metaId) ==
  IF status = 200 THEN [success |-> TRUE, error |-> NONE, metaData |-> metaId]
  ELSE [success |-> FALSE,
        error |-> IF status = 403 THEN "Invalid API key"
                  ELSE IF status = 400
                    THEN "Missing phoneNumberId, to, or message"
                    ELSE "Send failed",
        metaData |-> 0]

\* the response of a send: status and json are what the caller receives; q
\* is the request number (0 when it never waited), remote what the Graph API
\* answered ("none": it was not called) and metaId the id the Graph API gave
\* the message (0: none)
SendResponse(status, q, inp, remote, metaId) ==
  [kind |-> "send", status |-> status, json |-> SendJson(status, metaId),
   req |-> q, inp |-> inp, remote |-> remote, metaId |-> metaId]

\* MissingField without the test of the message
MissingFieldNoMessage(inp) == Falsy(inp.phoneNumberId) \/ Falsy(inp.to)

\* line 107: the test for a missing field
MissingField(inp) ==
  Falsy(inp.phoneNumberId) \/ Falsy(inp.to) \/ Falsy(inp.message)

\* lines 103-121: a send arrives; the handler answers 403 or 400, or calls the
\* Graph API and waits for its answer
SendPost(inp) ==
  \/ /\ inp.apiKey # apiKey
     /\ resp' = SendResponse(403, 0, inp, "none", 0)
     /\ UNCHANGED <<store, reqs, reqSeq, now, delivered>>
  \/ /\ inp.apiKey = apiKey
     /\ MissingField(inp)
     /\ resp' = SendResponse(400, 0, inp, "none", 0)
     /\ UNCHANGED <<store, reqs, reqSeq, now, delivered>>
  \/ /\ inp.apiKey = apiKey
     /\ ~MissingField(inp)
     /\ reqSeq < MaxReq
     /\ reqSeq' = reqSeq + 1
     /\ reqs' = [reqs EXCEPT ![reqSeq + 1] =
                   [pc |-> "fetch", kind |-> "send", inp |-> inp]]
     /\ UNCHANGED <<store, now, delivered, resp>>

\* the answers of the Graph API: the call threw (network error), the response
\* is not OK, the response is OK but its body has no messages[0].id, or the
\* response is OK and carries the id of the message
RemoteOutcomes == {"throw", "notok", "okNoId", "ok"}

\* the id the Graph API gives the next message it accepts
NextMetaId == Cardinality(delivered) + 1

\* lines 117-136, 139-142: the Graph API answered; the handler answers 500, or
\* builds the document and waits on its save
SendFetched(q, remote) ==
  LET r == reqs[q] IN
  /\ r.pc = "fetch"
  /\ \/ /\ remote \in {"throw", "notok", "okNoId"}
        /\ reqs' = [reqs EXCEPT ![q] = Done]
        /\ resp' = SendResponse(500, q, r.inp, remote, 0)
        /\ UNCHANGED <<now, delivered>>
     \/ /\ remote = "ok"
        /\ delivered' = delivered \cup
             {[id |-> NextMetaId, request |-> MetaRequest(r.inp)]}
        /\ \E t \in DateNow :
             /\ now' = t
             /\ reqs' = [reqs EXCEPT ![q] =
                  [pc |-> "save", kind |-> "send", inp |-> r.inp,
                   metaId |-> NextMetaId,
                   doc |-> Message(<<q, 1>>, OutgoingFields(r.inp, NextMetaId),
                                   now')]]
        /\ UNCHANGED resp
  /\ UNCHANGED <<store, reqSeq>>

\* SendSaved as an upsert: the document replaces the stored one of the same
\* phone number id and recipient, when there is one
SendSavedUpsert(q) ==
  LET r == reqs[q]
      Same(i) == /\ store[i].phoneNumberId = r.doc.phoneNumberId
                 /\ store[i].to = r.doc.to
  IN
  /\ r.pc = "save" /\ r.kind = "send"
  /\ Validates(r.doc)
  /\ store' = IF \E i \in DOMAIN store : Same(i)
                THEN [store EXCEPT ![CHOOSE i \in DOMAIN store : Same(i)] = r.doc]
                ELSE Append(store, r.doc)
  /\ reqs' = [reqs EXCEPT ![q] = Done]
  /\ resp' = SendResponse(200, q, r.inp, "ok", r.metaId)
  /\ UNCHANGED <<reqSeq, now, delivered>>

\* lines 136-138: the save succeeded; the handler answers success
SendSaved(q) ==
  LET r == reqs[q] IN
  /\ r.pc = "save" /\ r.kind = "send"
  /\ Validates(r.doc)
  /\ store' = Append(store, r.doc)
  /\ reqs' = [reqs EXCEPT ![q] = Done]
  /\ resp' = SendResponse(200, q, r.inp, "ok", r.metaId)
  /\ UNCHANGED <<reqSeq, now, delivered>>

\* lines 136, 139-142: the save rejected; the catch block answers 500
SendSaveFailed(q) ==
  LET r == reqs[q] IN
  /\ r.pc = "save" /\ r.kind = "send"
  /\ reqs' = [reqs EXCEPT ![q] = Done]
  /\ resp' = SendResponse(500, q, r.inp, "ok", r.metaId)
  /\ UNCHANGED <<store, reqSeq, now, delivered>>

(***************************************************************************)
(* The requests the model sends, and the specification.                    *)
(***************************************************************************)
SendInput(key, phoneNumberId, to, message) ==
  [apiKey |-> key, phoneNumberId |-> phoneNumberId, to |-> to,
   message |-> message]

\* req.body and req.query of POST /send: complete, or with one field missing,
\* or with a wrong key
SendInputs ==
  {SendInput(apiKey, "P1", "A", "yo"), SendInput(apiKey, "P2", "A", "yo"),
   SendInput(apiKey, NONE, "A", "yo"), SendInput(apiKey, "P1", NONE, "yo"),
   SendInput(apiKey, "P1", "A", NONE), SendInput("wrong-key", "P1", "A", "yo")}

MessageQuery(key, phoneId, contactNumber) ==
  [apiKey |-> key, phoneId |-> phoneId, contactNumber |-> contactNumber]

\* req.query of GET /messages
MessageQueries ==
  {MessageQuery(apiKey, "P1", "A"), MessageQuery(apiKey, "P1", "B"),
   MessageQuery(apiKey, "P2", "A"), MessageQuery(apiKey, "P1", NONE),
   MessageQuery("wrong-key", "P1", "A")}

ContactQuery(key, phoneId) == [apiKey |-> key, phoneId |-> phoneId]

\* req.query of GET /contacts
ContactQueries ==
  {ContactQuery(apiKey, "P1"), ContactQuery(apiKey, "P2"),
   ContactQuery(apiKey, NONE), ContactQuery("wrong-key", "P1")}

NoResponse == [kind |-> "none", status |-> 0, req |-> 0]

Init ==
  /\ store = <<>>
  /\ reqs = [q \in ReqIds |-> Idle]
  /\ reqSeq = 0
  /\ now = 0
  /\ delivered = {}
  /\ resp = NoResponse

\* the handlers, run on the requests of the given sets
Serve(events, inputs, messageQueries, contactQueries) ==
  \/ \E body \in events : WebhookPost(body)
  \/ \E q \in ReqIds : WebhookSaved(q)
  \/ \E q \in ReqIds : WebhookSaveFailed(q)
  \/ \E query \in messageQueries : MessagesGet(query)
  \/ \E inp \in inputs : SendPost(inp)
  \/ \E q \in ReqIds, remote \in RemoteOutcomes : SendFetched(q, remote)
  \/ \E q \in ReqIds : SendSaved(q)
  \/ \E q \in ReqIds : SendSaveFailed(q)
  \/ \E query \in contactQueries : ContactsGet(query)

Next == Serve(Events, SendInputs, MessageQueries, ContactQueries)

Spec == Init /\ [][Next]_vars

(***************************************************************************)
(* The same server on a collection that already holds a long conversation: *)
(* LIMIT - 1 messages sent to "A" from phone "P1", one per clock tick.     *)
(***************************************************************************)
Backlog ==
  [i \in 1..(LIMIT - 1) |->
     Message(<<-i, 1>>,
             OutgoingFields(SendInput(apiKey, "P1", "A", "yo"), i), i)]

InitBacklog ==
  /\ store = Backlog
  /\ reqs = [q \in ReqIds |-> Idle]
  /\ reqSeq = 0
  /\ now = Len(Backlog)
  /\ delivered =
       {[id |-> i, request |-> MetaRequest(SendInput(apiKey, "P1", "A", "yo"))] :
          i \in 1..Len(Backlog)}
  /\ resp = NoResponse

BacklogEvents == {EvNoEntry, EvNoValue, Delivery("P1", <<U1>>)}

BacklogInputs ==
  {SendInput(apiKey, "P1", "A", "yo"), SendInput(apiKey, "P1", "A", NONE),
   SendInput("wrong-key", "P1", "A", "yo")}

BacklogMessageQueries ==
  {MessageQuery(apiKey, "P1", "A"), MessageQuery(apiKey, "P2", "A")}

BacklogContactQueries == {ContactQuery(apiKey, "P1")}

NextBacklog ==
  Serve(BacklogEvents, BacklogInputs, BacklogMessageQueries,
        BacklogContactQueries)

SpecBacklog == InitBacklog /\ [][NextBacklog]_vars

(***************************************************************************)
(* The same server on the long conversation, with a slow save: a send to   *)
(* "A" from phone "P1" built its document at the first clock tick (line    *)
(* 127: the timestamp is taken when the document is constructed, not when  *)
(* it is stored) and still waits on its save (line 136), while the         *)
(* messages of the backlog were sent and stored.                           *)
(***************************************************************************)
SlowSend ==
  [pc |-> "save", kind |-> "send", inp |-> SendInput(apiKey, "P1", "A", "yo"),
   metaId |-> LIMIT,
   doc |-> Message(<<1, 1>>,
                   OutgoingFields(SendInput(apiKey, "P1", "A", "yo"), LIMIT),
                   1)]

InitBusy ==
  /\ store = Backlog
  /\ reqs = [q \in ReqIds |-> IF q = 1 THEN SlowSend ELSE Idle]
  /\ reqSeq = 1
  /\ now = Len(Backlog)
  /\ delivered =
       {[id |-> i, request |-> MetaRequest(SendInput(apiKey, "P1", "A", "yo"))] :
          i \in 1..LIMIT}
  /\ resp = NoResponse

BusyEvents == {EvNoEntry, EvNoValue, Delivery("P1", <<U1, U2>>)}

NextBusy ==
  Serve(BusyEvents, BacklogInputs, BacklogMessageQueries,
        BacklogContactQueries)

SpecBusy == InitBusy /\ [][NextBusy]_vars

(***************************************************************************)
(* The same server on deliveries of other shapes: a unit of every          *)
(* combination of reported type and presence of a `text` object, and       *)
(* bodies with more than one entry or more than one change.                *)
(***************************************************************************)
ShapeTypes == {"text", "image", "audio"}

ShapeUnit(type, hasText) ==
  Unit("wamid.5", "A", type, hasText, IF hasText THEN "hi" ELSE NONE)

ShapeUnits == {ShapeUnit(type, hasText) : type \in ShapeTypes, hasText \in BOOLEAN}

\* a change with every expected field
Full(pnid, msgs) == Change(TRUE, TRUE, pnid, TRUE, msgs)

\* two entries, the first with two changes: U1 is in the first change of the
\* first entry, U3 in its second change, U2 in the second entry
EvLater ==
  Body(TRUE, <<Entry(TRUE, <<Full("P1", <<U1>>), Full("P1", <<U3>>)>>),
               Entry(TRUE, <<Full("P1", <<U2>>)>>)>>)

\* the first change holds no unit, the second holds U1
EvLaterChangeOnly ==
  Body(TRUE, <<Entry(TRUE, <<Full("P1", <<>>), Full("P1", <<U1>>)>>)>>)

\* the first entry holds no change, the second holds U1
EvLaterEntryOnly ==
  Body(TRUE, <<Entry(TRUE, <<>>), Entry(TRUE, <<Full("P1", <<U1>>)>>)>>)

LaterEvents == {EvLater, EvLaterChangeOnly, EvLaterEntryOnly}

ShapeEvents ==
  {Delivery("P1", <<u>>) : u \in ShapeUnits} \cup LaterEvents \cup {EvNoValue}

NextShapes ==
  Serve(ShapeEvents, BacklogInputs, BacklogMessageQueries,
        BacklogContactQueries)

SpecShapes == Init /\ [][NextShapes]_vars

(***************************************************************************)
(* Properties.                                                             *)
(***************************************************************************)
\* the documents that request q constructed and saved, in insertion order
SavedBy(q) == LET By(m) == m._id[1] = q IN SelectSeq(store, By)

\* the document m records a message the Graph API accepted
Accepted(m) ==
  \E d \in delivered :
    /\ d.id = m.metadata.metaId
    /\ d.request.phoneNumberId = m.phoneNumberId
    /\ d.request.to = m.to
    /\ d.request.text.body = m.message

\* the answered send saved exactly one document: outgoing, with the id the
\* Graph API returned
OneOutgoing ==
  /\ Len(SavedBy(resp.req)) = 1
  /\ SavedBy(resp.req)[1].direction = "outgoing"
  /\ SavedBy(resp.req)[1].metadata.metaId = resp.metaId
  /\ SavedBy(resp.req)[1].to = resp.inp.to

\* every outgoing document records a message the Graph API accepted
OutgoingWereAccepted ==
  \A i \in DOMAIN store : store[i].direction = "outgoing" => Accepted(store[i])

\* C1 as stated: a send whose call to the Graph API failed (it threw, the
\* response was not OK, or reading the id threw) saved no document; a send
\* whose call succeeded saved exactly one, outgoing, with the returned id; and
\* every outgoing document corresponds to a call that reported success.
C1Claim ==
  /\ resp.kind = "send" /\ resp.req > 0 =>
       IF resp.remote = "ok" THEN OneOutgoing ELSE SavedBy(resp.req) = <<>>
  /\ OutgoingWereAccepted

\* C1, amended: as C1Claim, but a send whose call succeeded saved exactly one
\* document only if its save did not fail (the handler answered 200); if the
\* save failed (500 after the call succeeded) it saved none.
C1Thm ==
  /\ resp.kind = "send" /\ resp.req > 0 =>
       /\ resp.remote # "ok" => SavedBy(resp.req) = <<>>
       /\ resp.remote = "ok" /\ resp.status = 200 => OneOutgoing
       /\ resp.remote = "ok" /\ resp.status # 200 => SavedBy(resp.req) = <<>>
  /\ OutgoingWereAccepted

\* a send was answered after the Graph API refused it, and the collection
\* holds the document of another send, which succeeded
C1Witness ==
  /\ resp.kind = "send" /\ resp.remote = "notok"
  /\ \E i \in DOMAIN store :
       store[i].direction = "outgoing" /\ store[i]._id[1] # resp.req

\* C2 as stated: a delivery that arrives when every one of its units is
\* already stored under the same phone number id (a redelivery) saves no
\* document.
C2Claim ==
  resp.kind = "webhook" /\ resp.req > 0 /\ resp.seen =>
    SavedBy(resp.req) = <<>>

\* two documents of the same inbound message: the same phone number id and
\* origin id
SameOrigin(m, n) ==
  /\ m.direction = "incoming" /\ n.direction = "incoming"
  /\ m.phoneNumberId = n.phoneNumberId
  /\ m.metadata.id = n.metadata.id

\* C3 as stated: a delivery that ran while another delivery of the same
\* message was in flight (it arrived before that message was stored) leaves no
\* second document with the same (phoneNumberId, metadata.id).
C3Claim ==
  resp.kind = "webhook" /\ resp.req > 0 /\ ~resp.seen =>
    \A i, j \in DOMAIN store :
      store[i]._id[1] = resp.req /\ i # j => ~SameOrigin(store[i], store[j])

\* the message units of a delivery that has every expected field
UnitsOf(body) == body.entry[1].changes[1].messages

Counterparty(m) == IF m.direction = "incoming" THEN m.from ELSE m.to

\* the positions of the documents of phone number id p that the collection
\* held when it had n documents
Scope(p, n) == {i \in 1..n : store[i].phoneNumberId = p}

\* those of them that belong to the conversation with number c
Conversation(p, n, c) == {i \in Scope(p, n) : Counterparty(store[i]) = c}

\* the last response is a contact list, read when the collection had resp.n
\* documents
ContactsAnswered == resp.kind = "contacts" /\ resp.status = 200

\* C5 as stated: in a contact list, lastMessage and lastMessageTime of every
\* summary are the body and the timestamp of a document of that counterparty
\* with the greatest timestamp of the conversation.
C5Claim ==
  ContactsAnswered =>
    \A k \in DOMAIN resp.contacts :
      LET c == resp.contacts[k]
          own == Conversation(resp.query.phoneId, resp.n, c.number)
      IN \E i \in own :
           /\ \A j \in own : store[j].timestamp <= store[i].timestamp
           /\ c.lastMessage = store[i].message
           /\ c.lastMessageTime = store[i].timestamp

\* C6: in a contact list, unreadCount of every summary is the number of
\* incoming documents of the scope whose sender is that counterparty; outgoing
\* documents do not count.
C6Thm ==
  ContactsAnswered =>
    \A k \in DOMAIN resp.contacts :
      resp.contacts[k].unreadCount =
        Cardinality({i \in Scope(resp.query.phoneId, resp.n) :
                       /\ store[i].direction = "incoming"
                       /\ store[i].from = resp.contacts[k].number})

\* a contact list counts two unread messages for a counterparty whose
\* conversation also holds an outgoing document
C6Witness ==
  /\ ContactsAnswered
  /\ \E k \in DOMAIN resp.contacts :
       /\ resp.contacts[k].unreadCount = 2
       /\ \E i \in Conversation(resp.query.phoneId, resp.n,
                                resp.contacts[k].number) :
            store[i].direction = "outgoing"

\* C7: a contact list holds exactly one summary for every counterparty of the
\* scope; each summary shows a document of its own conversation and counts no
\* more than that conversation holds; a document without counterparty has no
\* summary.
C7Thm ==
  ContactsAnswered =>
    /\ {resp.contacts[k].number : k \in DOMAIN resp.contacts} =
         {Counterparty(store[i]) : i \in Scope(resp.query.phoneId, resp.n)}
           \ {NONE, ""}
    /\ \A k, l \in DOMAIN resp.contacts :
         resp.contacts[k].number = resp.contacts[l].number => k = l
    /\ \A k \in DOMAIN resp.contacts :
         LET c == resp.contacts[k]
             own == Conversation(resp.query.phoneId, resp.n, c.number)
         IN /\ \E i \in own : /\ c.lastMessage = store[i].message
                              /\ c.lastMessageTime = store[i].timestamp
            /\ c.unreadCount <= Cardinality(own)

\* a contact list of two summaries, of a scope that also holds a document
\* without counterparty
C7Witness ==
  /\ ContactsAnswered
  /\ Len(resp.contacts) = 2
  /\ \E i \in Scope(resp.query.phoneId, resp.n) :
       Counterparty(store[i]) = NONE

\* the last response is the result of a message query
MessagesAnswered == resp.kind = "messages" /\ resp.status = 200

\* C8: the result of a message query holds only stored documents of the
\* queried phone number id whose from or to is the queried number, in
\* descending order of timestamp, and no more than LIMIT of them.
C8Thm ==
  MessagesAnswered =>
    /\ \A k \in DOMAIN resp.messages :
         /\ resp.messages[k].phoneNumberId = resp.query.phoneId
         /\ \/ resp.messages[k].from = resp.query.contactNumber
            \/ resp.messages[k].to = resp.query.contactNumber
         /\ \E i \in 1..resp.n : store[i] = resp.messages[k]
    /\ \A k \in 1..(Len(resp.messages) - 1) :
         resp.messages[k].timestamp >= resp.messages[k + 1].timestamp
    /\ Len(resp.messages) <= LIMIT

\* a query matched more than LIMIT documents and returned LIMIT of them, sent
\* and received
C8Witness ==
  /\ MessagesAnswered
  /\ Len(resp.messages) = LIMIT
  /\ Cardinality(Conversation(resp.query.phoneId, resp.n,
                              resp.query.contactNumber)) > LIMIT
  /\ \E k \in DOMAIN resp.messages :
       resp.messages[k].from = resp.query.contactNumber
  /\ \E k \in DOMAIN resp.messages :
       resp.messages[k].to = resp.query.contactNumber

\* a field the send needs is missing from the input
Absent(inp) ==
  \/ inp.phoneNumberId \in {NONE, ""}
  \/ inp.to \in {NONE, ""}
  \/ inp.message \in {NONE, ""}

\* C9: a send with a missing field is answered without ever calling the Graph
\* API or saving a document (it never waits), with 400 when its key is right;
\* no send in flight, no accepted message and no outgoing document has a
\* missing field.
C9Thm ==
  /\ resp.kind = "send" /\ Absent(resp.inp) =>
       /\ resp.req = 0 /\ resp.remote = "none"
       /\ resp.status \in {400, 403}
       /\ resp.inp.apiKey = apiKey => resp.status = 400
  /\ \A q \in ReqIds :
       reqs[q].pc \in {"fetch", "save"} /\ reqs[q].kind = "send" =>
         ~Absent(reqs[q].inp)
  /\ \A d \in delivered :
       /\ d.request.phoneNumberId \notin {NONE, ""}
       /\ d.request.to \notin {NONE, ""}
       /\ d.request.text.body \notin {NONE, ""}
  /\ \A i \in DOMAIN store :
       store[i].direction = "outgoing" =>
         /\ store[i].to \notin {NONE, ""}
         /\ store[i].message \notin {NONE, ""}

\* a send without message was answered 400 by a server whose collection holds
\* documents and which has another send in flight
C9Witness ==
  /\ resp.kind = "send" /\ resp.status = 400
  /\ resp.inp.message = NONE
  /\ store # <<>>
  /\ \E q \in ReqIds : reqs[q].pc = "fetch"

\* C10 as stated: a delivery in which an expected nested field is absent is
\* answered 200 and saves nothing.
C10Claim ==
  resp.kind = "webhook" /\ resp.body \in MissingFieldEvents =>
    resp.status = 200 /\ resp.saved = 0


\* what the caller of POST /send receives: the status and the JSON body
Received(r) == [status |-> r.status, json |-> r.json]

\* the send was answered after the Graph API call failed: not delivered
DeliveryFailed(r) ==
  r.kind = "send" /\ r.remote \in {"throw", "notok", "okNoId"}

\* the send was answered after the Graph API accepted the message and the
\* save of its document failed: delivered, not stored
StorageFailed(r) ==
  r.kind = "send" /\ r.remote = "ok" /\ r.status # 200

\* C11: when the Graph API call succeeded and the save fails, the caller
\* receives an answer that is distinguishable from the one it receives when
\* the Graph API call itself failed: of two responses sent one after the
\* other, one for a failed delivery and one for a failed save, the status or
\* the JSON body differs.
C11Claim ==
  [][(\/ DeliveryFailed(resp) /\ StorageFailed(resp')
      \/ StorageFailed(resp) /\ DeliveryFailed(resp'))
     => Received(resp) # Received(resp')]_vars

(***************************************************************************)
(* The server under fair scheduling.  A save settles: the driver resolves  *)
(* or rejects it, and Node then runs the handler's continuation, so a      *)
(* handler that waits on a save goes on.  The answer of the Graph API is   *)
(* the remote's step, not the server's: `fetch` is called without a        *)
(* timeout or an abort signal (lines 117-121), so nothing in the server    *)
(* ends the wait, and no fairness is stated for SendFetched.               *)
(***************************************************************************)
SaveSettles(q) ==
  WebhookSaved(q) \/ WebhookSaveFailed(q) \/ SendSaved(q) \/ SendSaveFailed(q)

Fairness == \A q \in ReqIds : WF_vars(SaveSettles(q))

SpecLive == Init /\ [][NextBacklog]_vars /\ Fairness

\* C12: every send eventually answers its caller, even if the Graph API
\* never answers: a send that waits on the Graph API call leads to that
\* send having responded.
C12Claim ==
  \A q \in ReqIds : (reqs[q].pc = "fetch") ~> (reqs[q].pc = "done")

\* the response r is the answer of a read (GET /messages, GET /contacts)
IsRead(r) == r.kind \in {"messages", "contacts"}

\* C13: the collection is append-only.  Every step leaves every stored
\* document where it was, with all its fields: the collection after the step
\* starts with the collection before it; and a step that answers a read adds
\* no document.
C13Thm ==
  [][/\ Len(store') >= Len(store)
     /\ SubSeq(store', 1, Len(store)) = store
     /\ (resp' # resp /\ IsRead(resp')) => store' = store]_vars

\* a read returned documents, a document was stored after it, and every
\* document the read returned is still stored
C13Witness ==
  /\ resp.kind = "messages" /\ resp.status = 200
  /\ Len(resp.messages) > 0
  /\ Len(store) > resp.n
  /\ \A k \in DOMAIN resp.messages :
       \E i \in 1..resp.n : store[i] = resp.messages[k]

\* the body the claim gives a unit: by its reported type alone
BodyByType(msg) ==
  IF msg.type = "text" THEN msg.text.body
  ELSE IF msg.type = "image" THEN "[Image]" ELSE "[Other Media]"

\* C14: for every unit of a delivery, with or without a `text` object, the
\* stored body is the unit's text body if its reported type is text,
\* "[Image]" if it is image and "[Other Media]" otherwise, and the stored
\* type is the reported type.
C14Claim ==
  resp.kind = "webhook" /\ resp.status = 200 /\ resp.req > 0 =>
    \A k \in DOMAIN SavedBy(resp.req) :
      /\ SavedBy(resp.req)[k].message = BodyByType(UnitsOf(resp.body)[k])
      /\ SavedBy(resp.req)[k].type = UnitsOf(resp.body)[k].type

\* the documents of request q are those of the first n units, in their order
IsPrefix(q, units, n) ==
  /\ Len(SavedBy(q)) = n
  /\ n <= Len(units)
  /\ \A k \in 1..n :
       /\ SavedBy(q)[k].metadata.id = units[k].id
       /\ SavedBy(q)[k].from = units[k].from
       /\ SavedBy(q)[k]._id = <<q, k>>

\* C15: when the save of the k-th unit of a delivery fails, the documents of
\* units 1..k-1 and no others of the delivery are stored, in the order of the
\* units, they stay stored, and the delivery is answered with an error (500),
\* not with success; a delivery is answered 200 only with all its units
\* stored.  resp.saved is k - 1.
C15Thm ==
  resp.kind = "webhook" /\ resp.req > 0 =>
    /\ IsPrefix(resp.req, UnitsOf(resp.body), resp.saved)
    /\ resp.saved < Len(UnitsOf(resp.body)) <=> resp.status = 500
    /\ resp.saved = Len(UnitsOf(resp.body)) <=> resp.status = 200

\* the save of the second of two units failed: the first unit is stored, the
\* delivery was answered 500, and the collection holds other documents too
C15Witness ==
  /\ resp.kind = "webhook" /\ resp.status = 500 /\ resp.req > 0
  /\ Len(UnitsOf(resp.body)) = 2
  /\ resp.saved = 1
  /\ Len(SavedBy(resp.req)) = 1
  /\ Len(store) > 1

\* C16: a failure on one unit of a delivery does not abort its sibling
\* units: once the delivery is answered, every unit other than the one whose
\* save failed (unit resp.saved + 1) has its document stored, the units
\* after the failing one included.
C16Claim ==
  resp.kind = "webhook" /\ resp.req > 0 =>
    \A k \in DOMAIN UnitsOf(resp.body) :
      k # resp.saved + 1 =>
        \E i \in DOMAIN store :
          /\ store[i]._id[1] = resp.req
          /\ store[i].metadata.id = UnitsOf(resp.body)[k].id

\* the delivery reaches the for loop with no phone_number_id in its metadata
NoPhoneId(body) ==
  Extract(body).outcome = "loop" /\ Falsy(Extract(body).phoneNumberId)

\* C17: every stored document has a phone number id that is present and not
\* empty, and a direction that is incoming or outgoing; a delivery without
\* phone_number_id and a send without phoneNumberId are answered with an
\* error and store no document.
C17Thm ==
  /\ \A i \in DOMAIN store :
       /\ ~Falsy(store[i].phoneNumberId)
       /\ store[i].direction \in {"incoming", "outgoing"}
  /\ resp.kind = "webhook" /\ NoPhoneId(resp.body) =>
       /\ resp.status = 500
       /\ resp.req > 0 /\ SavedBy(resp.req) = <<>>
  /\ resp.kind = "send" /\ Falsy(resp.inp.phoneNumberId) =>
       /\ resp.status \in {400, 403}
       /\ resp.req = 0 /\ resp.remote = "none"

\* a delivery without phone_number_id was answered while the collection
\* holds a document of another request
C17Witness ==
  /\ resp.kind = "webhook" /\ NoPhoneId(resp.body)
  /\ resp.req > 0
  /\ \E i \in DOMAIN store : store[i].direction = "outgoing"

\* the positions of the documents that sends of this run stored for the
\* conversation of the answered query, among the documents the query read
OwnSends ==
  {i \in 1..resp.n :
     /\ store[i]._id[1] > 0
     /\ store[i].direction = "outgoing"
     /\ store[i].phoneNumberId = resp.query.phoneId
     /\ store[i].to = resp.query.contactNumber}

\* the document at position i is among the returned ones
Returned(i) == \E k \in DOMAIN resp.messages : resp.messages[k] = store[i]

\* the number of other documents of the conversation, among those the query
\* read, whose timestamp is not older than that of the document at position i
NotOlder(i) ==
  Cardinality({j \in 1..resp.n :
                 /\ j # i
                 /\ store[j].phoneNumberId = resp.query.phoneId
                 /\ (store[j].from = resp.query.contactNumber
                     \/ store[j].to = resp.query.contactNumber)
                 /\ store[j].timestamp >= store[i].timestamp})

\* C18 as stated: after a send for a conversation was answered with success,
\* a later GET /messages for that conversation returns the document of the
\* send, however many documents the conversation holds.
C18Claim ==
  resp.kind = "messages" /\ resp.status = 200 =>
    \A i \in OwnSends : Returned(i)

\* C18, amended: after a send for a conversation was answered with success, a
\* later GET /messages for that conversation returns the document of the send
\* if fewer than LIMIT other documents of the conversation have a timestamp
\* that is not older than its own (the timestamp a document gets when it is
\* constructed, before it is stored).
C18Thm ==
  resp.kind = "messages" /\ resp.status = 200 =>
    \A i \in OwnSends : NotOlder(i) < LIMIT => Returned(i)

\* the conversation held LIMIT documents or more when the query read it, and
\* the query returned the document of a send of this run
C18Witness ==
  /\ resp.kind = "messages" /\ resp.status = 200
  /\ Len(resp.messages) = LIMIT
  /\ \E i \in OwnSends : NotOlder(i) < LIMIT /\ Returned(i)

\* the phone number ids and the contact numbers of the requests
PhoneIds == {"P1", "P2"}
ContactNumbers == {"A", "B"}

\* the step stores no document of phone number id p
StoresNoneOf(p) ==
  \A i \in DOMAIN store' : i > Len(store) => store'[i].phoneNumberId # p

\* C19: a webhook delivery or a send for one phone number id changes the
\* result of no read for another: a step that stores no document of phone
\* number id p leaves the documents that GET /contacts and GET /messages
\* select for p as they were, and in the same order.  The result of a read
\* is computed from the documents its filter selects and from nothing else
\* (lines 92-96, 150-174).
C19Thm ==
  [][\A p \in PhoneIds :
       StoresNoneOf(p) =>
         /\ ContactsFilter(p)' = ContactsFilter(p)
         /\ \A x \in ContactNumbers :
              MessagesFilter(p, x)' = MessagesFilter(p, x)]_vars

\* a query for "P2" returned documents, and a document of "P1" was stored
\* after it
C19Witness ==
  /\ resp.kind \in {"messages", "contacts"} /\ resp.status = 200
  /\ resp.query.phoneId = "P2"
  /\ IF resp.kind = "messages" THEN Len(resp.messages) > 0
     ELSE Len(resp.contacts) > 0
  /\ Len(store) > resp.n
  /\ store[Len(store)].phoneNumberId = "P1"

\* the units of the first change of the first entry of a body of LaterEvents
FirstUnits(body) ==
  IF Len(body.entry[1].changes) = 0 THEN <<>>
  ELSE body.entry[1].changes[1].messages

\* the ids of the units of every other change and entry of the body
LaterIds(body) ==
  {body.entry[e].changes[c].messages[k].id :
     <<e, c, k>> \in
       {t \in (DOMAIN body.entry) \X (1..2) \X (1..2) :
          /\ t[2] \in DOMAIN body.entry[t[1]].changes
          /\ t[3] \in DOMAIN body.entry[t[1]].changes[t[2]].messages
          /\ <<t[1], t[2]>> # <<1, 1>>}}

\* C20: the webhook reads the first change of the first entry only.  A
\* delivery that carries units in a later change or a later entry stores no
\* document for them, stores the units of the first change of the first
\* entry, and is answered 200 unless one of its saves failed.
C20Thm ==
  resp.kind = "webhook" /\ resp.body \in LaterEvents =>
    /\ \A i \in DOMAIN store :
         store[i]._id[1] = resp.req =>
           store[i].metadata.id \notin LaterIds(resp.body)
    /\ resp.status = 200 =>
         /\ Len(SavedBy(resp.req)) = Len(FirstUnits(resp.body))
         /\ \A k \in DOMAIN FirstUnits(resp.body) :
              SavedBy(resp.req)[k].metadata.id = FirstUnits(resp.body)[k].id
    /\ resp.status # 200 =>
         resp.req > 0 /\ resp.saved < Len(FirstUnits(resp.body))

\* the delivery with units in three changes was answered 200 with one
\* document stored, that of the unit of its first change
C20Witness ==
  /\ resp.kind = "webhook" /\ resp.status = 200
  /\ resp.body = EvLater
  /\ Len(SavedBy(resp.req)) = 1
  /\ LaterIds(resp.body) = {"wamid.2", "wamid.3"}

====
